---- MODULE Spec2Model ----
(***************************************************************************)
(* Age calculation of go-user-api (internal/models/user.go) and the calls  *)
(* the service layer makes to it.                                          *)
(*                                                                         *)
(* CalculateAge(dob) takes ONE argument, the date of birth, and reads the  *)
(* reference instant itself with time.Now().  The process clock is the     *)
(* variable  clock;  only its local calendar date matters to the function  *)
(* (now.Year(), now.Month(), now.Day()).                                   *)
(*                                                                         *)
(* Two specifications:                                                     *)
(*   Spec      one caller, CalculateAge runs as one step, over a wide set  *)
(*             of (clock date, date of birth) pairs;                       *)
(*   SpecConc  several request goroutines, each running CalculateAge line  *)
(*             by line, interleaved with each other and with the clock.    *)
(***************************************************************************)
EXTENDS Integers, FiniteSets, Sequences, TLC

(***************************************************************************)
(* Bounds of the model.                                                    *)
(***************************************************************************)
\* number of consecutive clock years of Spec, starting with 2024 (a leap year)
MaxNowYears == 2
\* number of request goroutines of SpecConc
MaxProcs == 2
\* number of consecutive clock days of SpecConc, starting with 2025-02-27
MaxConcDays == 4
\* number of ids the sequence hands out in SpecService
MaxUsers == 2
\* number of ids the sequence hands out in SpecList: one more than a page
MaxListUsers == 11

\* requests sent through the middleware chain in SpecMiddleware
MaxRequests == 2

\* midnights that pass during one run of TestCalculateAge_EdgeCases
MaxTestDays == 1

(***************************************************************************)
(* Calendar dates: what time.Time's Year(), Month(), Day() return.         *)
(***************************************************************************)
IsLeap(y) == (y % 4 = 0 /\ y % 100 # 0) \/ y % 400 = 0

DaysIn(y, m) ==
    IF m = 2 THEN (IF IsLeap(y) THEN 29 ELSE 28)
    ELSE IF m \in {4, 6, 9, 11} THEN 30 ELSE 31

Date(y, m, d) == [year |-> y, month |-> m, day |-> d]

IsValidDate(t) ==
    /\ t.month \in 1..12
    /\ t.day \in 1..DaysIn(t.year, t.month)

DatesOfYears(ys) ==
    {Date(y, md[1], md[2]) :
        y \in ys, md \in {x \in (1..12) \X (1..31) : x[2] <= 28}}
    \cup {t \in {Date(y, md[1], md[2]) : y \in ys, md \in (1..12) \X (29..31)} :
            IsValidDate(t)}

\* the calendar day after t (the clock passing midnight)
NextDay(t) ==
    IF t.day < DaysIn(t.year, t.month) THEN Date(t.year, t.month, t.day + 1)
    ELSE IF t.month < 12 THEN Date(t.year, t.month + 1, 1)
    ELSE Date(t.year + 1, 1, 1)

NoDate == Date(0, 0, 0)

(***************************************************************************)
(* Strings: time.Parse and Time.Format with the layout "2006-01-02",       *)
(* strconv.ParseInt, and the struct validator of the request types.        *)
(***************************************************************************)
Digits == <<"0", "1", "2", "3", "4", "5", "6", "7", "8", "9">>

DigitValues ==
    [c \in {"0", "1", "2", "3", "4", "5", "6", "7", "8", "9"} |->
        (CHOOSE i \in 1..10 : Digits[i] = c) - 1]

IsDigit(c) == c \in DOMAIN DigitValues

DigitVal(c) == DigitValues[c]

\* the characters of a string, as a sequence
Chars(s) == [i \in 1..Len(s) |-> SubSeq(s, i, i)]

\* cs[from..to] are all digits
AllDigits(cs, from, to) == \A i \in from..to : IsDigit(cs[i])

\* value of the digits cs[from..to]; the caller keeps it short enough
RECURSIVE NumAt(_, _, _)
NumAt(cs, from, to) ==
    IF to < from THEN 0
    ELSE NumAt(cs, from, to - 1) * 10 + DigitVal(cs[to])

\* time.Parse("2006-01-02", s): four digits, '-', two digits, '-', two
\* digits and nothing else; the month in 1..12, the day within the month
ParseTime(s) ==
    LET cs == Chars(s)
    IN  IF /\ Len(cs) = 10
           /\ AllDigits(cs, 1, 4) /\ cs[5] = "-"
           /\ AllDigits(cs, 6, 7) /\ cs[8] = "-"
           /\ AllDigits(cs, 9, 10)
        THEN LET t == Date(NumAt(cs, 1, 4), NumAt(cs, 6, 7), NumAt(cs, 9, 10))
             IN  IF IsValidDate(t) THEN [ok |-> TRUE, t |-> t]
                 ELSE [ok |-> FALSE, t |-> NoDate]
        ELSE [ok |-> FALSE, t |-> NoDate]

\* n in decimal, zero-padded to w digits
RECURSIVE Pad(_, _)
Pad(n, w) == IF w = 0 THEN "" ELSE Pad(n \div 10, w - 1) \o Digits[(n % 10) + 1]

\* mutant of FormatTime: day and month change places
FormatTimeDayFirst(t) == Pad(t.year, 4) \o "-" \o Pad(t.day, 2) \o "-" \o Pad(t.month, 2)

\* t.Format("2006-01-02")
FormatTime(t) == Pad(t.year, 4) \o "-" \o Pad(t.month, 2) \o "-" \o Pad(t.day, 2)

\* n in decimal without padding (n >= 0): the id in a request path
RECURSIVE Itoa(_)
Itoa(n) == IF n < 10 THEN Digits[n + 1] ELSE Itoa(n \div 10) \o Digits[(n % 10) + 1]

\* the digits cs[from..to] as the negative number -n, or 1 when n exceeds
\* 2^31 (the magnitude of the smallest int32)
RECURSIVE NegNum(_, _, _)
NegNum(cs, from, to) ==
    IF to < from THEN 0
    ELSE LET hi == NegNum(cs, from, to - 1)
             d == DigitVal(cs[to])
         IN  IF hi = 1 \/ hi < -214748364 \/ (hi = -214748364 /\ d > 8)
             THEN 1 ELSE hi * 10 - d

\* strconv.ParseInt(s, 10, 32): an optional sign and at least one digit,
\* within -2^31 .. 2^31 - 1
ParseInt32(s) ==
    LET cs == Chars(s)
        signed == Len(cs) > 0 /\ cs[1] \in {"+", "-"}
        minus == signed /\ cs[1] = "-"
        from == IF signed THEN 2 ELSE 1
        wellFormed == Len(cs) >= from /\ AllDigits(cs, from, Len(cs))
        neg == IF wellFormed THEN NegNum(cs, from, Len(cs)) ELSE 1
    IN  IF neg # 1 /\ (minus \/ neg + 2147483647 >= 0)
        THEN [ok |-> TRUE, v |-> IF minus THEN neg ELSE 0 - neg]
        ELSE [ok |-> FALSE, v |-> 0]

\* A Go int (64 bit) as sign and magnitude, the magnitude in four 16-bit
\* limbs, lowest first.
Int64(neg, l) == [neg |-> neg, l |-> l]

ZeroLimbs == <<0, 0, 0, 0>>

\* the int n, -2^31 < n < 2^31
IntOf(n) ==
    LET a == IF n < 0 THEN 0 - n ELSE n
    IN  Int64(n < 0, <<a % 65536, a \div 65536, 0, 0>>)

\* 10 * l + d in limbs; over when the result does not fit 64 bits
MulAdd(l, d) ==
    LET a1 == l[1] * 10 + d
        a2 == l[2] * 10 + (a1 \div 65536)
        a3 == l[3] * 10 + (a2 \div 65536)
        a4 == l[4] * 10 + (a3 \div 65536)
    IN  [over |-> a4 >= 65536,
         l |-> <<a1 % 65536, a2 % 65536, a3 % 65536, a4 % 65536>>]

\* the digits cs[from..to] as a magnitude
RECURSIVE Magnitude(_, _, _)
Magnitude(cs, from, to) ==
    IF to < from THEN [over |-> FALSE, l |-> ZeroLimbs]
    ELSE LET hi == Magnitude(cs, from, to - 1)
             m == MulAdd(hi.l, DigitVal(cs[to]))
         IN  [over |-> hi.over \/ m.over, l |-> m.l]

\* strconv.Atoi(s): an optional sign and at least one digit, within
\* -2^63 .. 2^63 - 1
Atoi(s) ==
    LET cs == Chars(s)
        signed == Len(cs) > 0 /\ cs[1] \in {"+", "-"}
        minus == signed /\ cs[1] = "-"
        from == IF signed THEN 2 ELSE 1
        wellFormed == Len(cs) >= from /\ AllDigits(cs, from, Len(cs))
        m == IF wellFormed THEN Magnitude(cs, from, Len(cs))
             ELSE [over |-> TRUE, l |-> ZeroLimbs]
        fits == ~m.over /\ (m.l[4] < 32768 \/ (minus /\ m.l = <<0, 0, 0, 32768>>))
    IN  IF fits
        THEN [ok |-> TRUE, v |-> Int64(minus /\ m.l # ZeroLimbs, m.l)]
        ELSE [ok |-> FALSE, v |-> IntOf(0)]

\* l - 1 in limbs, l not zero
Decrement(l) ==
    IF l[1] > 0 THEN <<l[1] - 1, l[2], l[3], l[4]>>
    ELSE IF l[2] > 0 THEN <<65535, l[2] - 1, l[3], l[4]>>
    ELSE IF l[3] > 0 THEN <<65535, 65535, l[3] - 1, l[4]>>
    ELSE <<65535, 65535, 65535, l[4] - 1>>

\* the magnitude l as a number when it is below 2^31, -1 otherwise
SmallOf(l) ==
    IF l[3] = 0 /\ l[4] = 0 /\ l[2] < 32768 THEN l[2] * 65536 + l[1] ELSE -1

RECURSIVE Repeat(_, _)
Repeat(s, n) ==
    IF n = 0 THEN ""
    ELSE LET h == Repeat(s, n \div 2)
         IN  h \o h \o (IF n % 2 = 1 THEN s ELSE "")

\* the validator's message for one field that fails one tag
FieldError(struct, field, tag) ==
    "Key: '" \o struct \o "." \o field \o "' Error:Field validation for '"
    \o field \o "' failed on the '" \o tag \o "' tag"

\* Name: validate:"required,min=1,max=255"; the first tag that fails, or ""
NameTag(name) ==
    IF name = "" THEN "required"
    ELSE IF Len(name) < 1 THEN "min"
    ELSE IF Len(name) > 255 THEN "max"
    ELSE ""

\* mutant of DobTag: the README's struct, where only "required" is checked
DobTagRequiredOnly(d) == IF d = "" THEN "required" ELSE ""

\* DOB: validate:"required,datetime=2006-01-02"; the first tag that fails, or ""
DobTag(d) ==
    IF d = "" THEN "required"
    ELSE IF ~ParseTime(d).ok THEN "datetime"
    ELSE ""

\* validate.Struct(r): "" when the request is valid, else the field errors,
\* in field order, one per line
Validate(struct, name, d) ==
    LET nt == NameTag(name)
        dt == DobTag(d)
        ne == IF nt = "" THEN "" ELSE FieldError(struct, "Name", nt)
        de == IF dt = "" THEN "" ELSE FieldError(struct, "DOB", dt)
    IN  IF ne # "" /\ de # "" THEN ne \o "\n" \o de ELSE ne \o de

(***************************************************************************)
(* Input sets.                                                             *)
(***************************************************************************)
\* clock dates of Spec: every day of the years 2024, 2025, ...
NowYears == 2024..(2024 + MaxNowYears - 1)
NowDates == DatesOfYears(NowYears)

\* dates of birth of Spec: every day of
\*   1874          150 years before the first clock year,
\*   1990          the year of the documented examples,
\*   Y - 30        for every clock year Y,
\*   the clock years (dates of birth in the clock's year, before and after
\*                 the clock date, and in a later year)
DobYears == {1874, 1990} \cup {y - 30 : y \in NowYears} \cup NowYears
DobDates == DatesOfYears(DobYears)

\* SpecConc: a few clock days around the end of February 2025 and dates of
\* birth whose birthdays fall on them
RECURSIVE DaysFrom(_, _)
DaysFrom(t, n) == IF n = 0 THEN {} ELSE {t} \cup DaysFrom(NextDay(t), n - 1)
ConcNowDates == DaysFrom(Date(2025, 2, 27), MaxConcDays)
ConcDobDates == {Date(2024, 2, 29), Date(1995, 2, 28)}
Procs == 1..MaxProcs

(***************************************************************************)
(* State.                                                                  *)
(*   clock   calendar date of the process clock (what time.Now() returns)  *)
(*   pc      position of each caller in CalculateAge                       *)
(*   dob     CalculateAge's parameter, per call                            *)
(*   now     CalculateAge's local  now := time.Now(), per call             *)
(*   age     CalculateAge's local  age, the value returned, per call       *)
(***************************************************************************)
VARIABLES clock, pc, dob, now, age

(***************************************************************************)
(* State of the HTTP service.                                              *)
(*   users    the users table: id -> [name, dob]; no age column.  The      *)
(*            columns created_at and updated_at are written by the         *)
(*            database and read by no code of the service; they are left   *)
(*            out.                                                         *)
(*   nextId   the sequence behind  id SERIAL                               *)
(*   everIds  every id the table has ever held (history)                   *)
(*   req      the request answered last                                    *)
(*   resp     the response to it                                           *)
(*   trace    the calls made for it below the handler: "service", "repo",  *)
(*            and "count" for the CountUsers query of a list request       *)
(*   calls    per goroutine the request it is serving, between a statement  *)
(*            it has sent to the database and its answer: its position;    *)
(*            the request; for a request whose answer follows from the     *)
(*            reply of the database, that response, the calls it made and  *)
(*            the entries it logs; for a GetUserByID or ListUsers request  *)
(*            the rows the SELECT returned, the responses built so far and *)
(*            per row the moments since the SELECT (history): each clock   *)
(*            date with each dob the table held for the row's user on it.  *)
(*            The model follows as many requests at a time as there are    *)
(*            goroutines in Goroutines.                                    *)
(***************************************************************************)
VARIABLES users, nextId, everIds, req, resp, trace, calls

(***************************************************************************)
(* State of the middleware chain.                                          *)
(*   mw    the request the chain is serving: its position, the incoming    *)
(*         X-Request-ID header, what its route does, c.Locals, the         *)
(*         response as written so far, the error being returned            *)
(*   logs  what the logger has received for the request being served by    *)
(*         the chain, or outside the chain for the request answered last,  *)
(*         oldest entry first.  The logger is an output stream of the      *)
(*         process; the entries of earlier requests are not kept.          *)
(***************************************************************************)
VARIABLES mw, logs

ageVars == <<pc, dob, now, age>>
svcVars == <<users, nextId, everIds, req, resp, trace, calls>>
mwVars == <<mw, logs>>
vars == <<clock, pc, dob, now, age, users, nextId, everIds, req, resp, trace,
          calls, mw, logs>>

\* mutant of TimeNow: the date is read once, when the process starts
TimeNowAtStartup == Date(2024, 12, 17)

\* time.Now(): the process-wide clock
TimeNow == clock

\* mutants of BirthdayNotYet: <= for < on the day; the day test lost; the day
\* test turned round
BirthdayNotYetLE(n, d) ==
    n.month < d.month \/ (n.month = d.month /\ n.day <= d.day)

BirthdayNotYetMonthOnly(n, d) == n.month < d.month

BirthdayNotYetFlipped(n, d) ==
    n.month < d.month \/ (n.month = d.month /\ n.day > d.day)

\* "Adjust if birthday hasn't occurred this year": the condition of the if
BirthdayNotYet(n, d) ==
    n.month < d.month \/ (n.month = d.month /\ n.day < d.day)

\* mutants of AgeAt: the subtraction and the comparison with their operands
\* swapped; a 29 February birthday moved to 28 February in a non-leap year;
\* the clock read a second time instead of the local now
AgeAtSwapped(n, d) ==
    LET years == d.year - n.year
    IN  IF BirthdayNotYet(d, n) THEN years - 1 ELSE years

AgeAtLeapShift(n, d) ==
    LET b == IF d.month = 2 /\ d.day = 29 /\ ~IsLeap(n.year)
             THEN Date(d.year, 2, 28) ELSE d
        years == n.year - d.year
    IN  IF BirthdayNotYet(n, b) THEN years - 1 ELSE years

\* the body of CalculateAge after  now := time.Now()
AgeAt(n, d) ==
    LET years == n.year - d.year
    IN  IF BirthdayNotYet(n, d) THEN years - 1 ELSE years

\* CalculateAge(dob): reads the clock, then computes
CalculateAge(d) == AgeAt(TimeNow, d)

\* mutant of SetLocal: the variable is package-level, one cell for all calls
SetShared(f, p, v) == [q \in DOMAIN f |-> v]

\* dob, now and age are locals of one call: a write touches that call only
SetLocal(f, p, v) == [f EXCEPT ![p] = v]

(***************************************************************************)
(* Spec: one caller, CalculateAge as one step.                             *)
(***************************************************************************)
NoReq ==
    [op |-> "none", id |-> "", bodyOk |-> TRUE, name |-> "", dob |-> "",
     page |-> "", pageSize |-> ""]

NoResp == [status |-> 0, error |-> "", list |-> FALSE, body |-> <<>>]

\* the goroutines that serve requests
Goroutines == {1, 2}

\* a goroutine that serves no request
NoCall ==
    [pc |-> "idle", req |-> NoReq, resp |-> NoResp, layers |-> {}, log |-> <<>>,
     rows |-> <<>>, seen |-> <<>>, body |-> <<>>]

Body(ok, name, d) == [ok |-> ok, name |-> name, dob |-> d]

NoBody == Body(TRUE, "", "")

\* what runs after the middleware for a request
\*   handler  a route of SetupRoutes: the handler of op runs
\*   none     no route matches the path
\*   panic    a handler that panics
\* op is the handler, id the :id of the path, body the request body, page and
\* pageSize the query parameters
Route(kind, op, id, body, page, pageSize) ==
    [kind |-> kind, op |-> op, id |-> id, body |-> body,
     page |-> page, pageSize |-> pageSize]

\* a path without route
NoRoute == Route("none", "", "", NoBody, "", "")

\* no request yet: the fiber.Ctx of a request as it is acquired.
\* n counts the requests that have arrived, uuids the ids generated and
\* recovered the panics recovered since the process started; ids holds the
\* request ids of the requests before this one.
NoCtx ==
    [pc |-> "idle", n |-> 0, preflight |-> FALSE, hdrIn |-> "",
     route |-> NoRoute,
     localSet |-> FALSE, local |-> "", hdrOut |-> "",
     status |-> 200, body |-> "", err |-> 0, panicking |-> FALSE,
     uuids |-> 0, recovered |-> 0, ids |-> {}]

\* the service as it starts: an empty table, nothing asked yet, nothing
\* logged
InitService ==
    /\ mw = NoCtx
    /\ logs = <<>>
    /\ users = <<>>
    /\ nextId = 1
    /\ everIds = {}
    /\ req = NoReq
    /\ resp = NoResp
    /\ trace = {}
    /\ calls = [g \in Goroutines |-> NoCall]

Init ==
    /\ InitService
    /\ clock \in NowDates
    /\ pc = [p \in {1} |-> "idle"]
    /\ dob = [p \in {1} |-> NoDate]
    /\ now = [p \in {1} |-> NoDate]
    /\ age = [p \in {1} |-> 0]

\* age := models.CalculateAge(user.Dob)   (GetUserByID, ListUsers)
Call(p) ==
    /\ pc[p] = "idle"
    /\ \E d \in DobDates :
        /\ dob' = SetLocal(dob, p, d)
        /\ now' = SetLocal(now, p, TimeNow)
        /\ age' = SetLocal(age, p, CalculateAge(d))
    /\ pc' = [pc EXCEPT ![p] = "done"]
    /\ UNCHANGED <<clock, svcVars, mwVars>>

\* the caller has taken the value; the call's locals are gone
Reset(p) ==
    /\ pc[p] = "done"
    /\ pc' = [pc EXCEPT ![p] = "idle"]
    /\ dob' = SetLocal(dob, p, NoDate)
    /\ now' = SetLocal(now, p, NoDate)
    /\ age' = SetLocal(age, p, 0)
    /\ UNCHANGED <<clock, svcVars, mwVars>>

\* midnight passes while no call is running
TickIdle ==
    /\ \A p \in DOMAIN pc : pc[p] = "idle"
    /\ NextDay(clock) \in NowDates
    /\ clock' = NextDay(clock)
    /\ UNCHANGED <<ageVars, svcVars, mwVars>>

Next ==
    \/ Call(1)
    \/ Reset(1)
    \/ TickIdle

Spec == Init /\ [][Next]_vars

(***************************************************************************)
(* SpecConc: MaxProcs request goroutines, CalculateAge line by line.       *)
(***************************************************************************)
InitConc ==
    /\ InitService
    /\ clock \in ConcNowDates
    /\ pc = [p \in Procs |-> "idle"]
    /\ dob = [p \in Procs |-> NoDate]
    /\ now = [p \in Procs |-> NoDate]
    /\ age = [p \in Procs |-> 0]

\* the call: the argument is copied into the parameter
Enter(p) ==
    /\ pc[p] = "idle"
    /\ \E d \in ConcDobDates : dob' = SetLocal(dob, p, d)
    /\ pc' = [pc EXCEPT ![p] = "entered"]
    /\ UNCHANGED <<clock, now, age, svcVars, mwVars>>

\* now := time.Now()
ReadNow(p) ==
    /\ pc[p] = "entered"
    /\ now' = SetLocal(now, p, TimeNow)
    /\ pc' = [pc EXCEPT ![p] = "read"]
    /\ UNCHANGED <<clock, dob, age, svcVars, mwVars>>

\* age := now.Year() - dob.Year(); if ... { age-- }; return age
Compute(p) ==
    /\ pc[p] = "read"
    /\ age' = SetLocal(age, p, AgeAt(now[p], dob[p]))
    /\ pc' = [pc EXCEPT ![p] = "done"]
    /\ UNCHANGED <<clock, dob, now, svcVars, mwVars>>

\* midnight passes, whatever the goroutines are doing
Tick ==
    /\ NextDay(clock) \in ConcNowDates
    /\ clock' = NextDay(clock)
    /\ UNCHANGED <<ageVars, svcVars, mwVars>>

NextConc ==
    \/ \E p \in Procs : Enter(p)
    \/ \E p \in Procs : ReadNow(p)
    \/ \E p \in Procs : Compute(p)
    \/ \E p \in Procs : Reset(p)
    \/ Tick

SpecConc == InitConc /\ [][NextConc]_vars

(***************************************************************************)
(* SpecEdge: TestCalculateAge_EdgeCases run on every clock date.  The test *)
(* reads the clock once, builds its three cases from that date and runs    *)
(* them in order; every case calls CalculateAge, which reads the clock     *)
(* itself.  Midnight may pass at any point of the run.                     *)
(***************************************************************************)
\* time.Date(y, m, d, ...): a day below 1 or past the end of the month is
\* carried into the neighbouring months
RECURSIVE TimeDate(_, _, _)
TimeDate(y, m, d) ==
    IF d < 1
    THEN LET py == IF m = 1 THEN y - 1 ELSE y
             pm == IF m = 1 THEN 12 ELSE m - 1
         IN  TimeDate(py, pm, d + DaysIn(py, pm))
    ELSE IF d > DaysIn(y, m)
    THEN LET ny == IF m = 12 THEN y + 1 ELSE y
             nm == IF m = 12 THEN 1 ELSE m + 1
         IN  TimeDate(ny, nm, d - DaysIn(y, m))
    ELSE Date(y, m, d)

\* the frames of a test run: the call of CalculateAge and the test function
Callee == 1
Test == 2

\* the test cases in the order of the table
EdgeOffsets == {0, 1, -1}

\* the name of a test case
EdgeName(k) ==
    IF k = 0 THEN "Birthday today"
    ELSE IF k = 1 THEN "Birthday tomorrow" ELSE "Birthday yesterday"

\* the want of a test case
EdgeWant(k) == IF k = 1 THEN 29 ELSE 30

\* what follows a test case; after the last one the test function returns
EdgeAfter(k) ==
    IF k = 0 THEN EdgeName(1) ELSE IF k = 1 THEN EdgeName(-1) ELSE "idle"

InitEdge ==
    /\ InitService
    /\ clock \in NowDates
    /\ pc = [p \in {Callee, Test} |-> "idle"]
    /\ dob = [p \in {Callee, Test} |-> NoDate]
    /\ now = [p \in {Callee, Test} |-> NoDate]
    /\ age = [p \in {Callee, Test} |-> 0]

\* now := time.Now() of the test function; the first case is next
TestStart ==
    /\ pc[Test] = "idle"
    /\ now' = SetLocal(now, Test, TimeNow)
    /\ pc' = [pc EXCEPT ![Test] = EdgeName(0)]
    /\ UNCHANGED <<clock, dob, age, svcVars, mwVars>>

\* one test case is entered:
\* dob: time.Date(now.Year()-30, now.Month(), now.Day()+k), now the date the
\* test function read; CalculateAge(tt.dob) is called
EdgeCase(k) ==
    /\ pc[Test] = EdgeName(k)
    /\ pc[Callee] = "idle"
    /\ LET d == TimeDate(now[Test].year - 30, now[Test].month, now[Test].day + k)
       IN  dob' = SetLocal(SetLocal(dob, Test, d), Callee, d)
    /\ pc' = [pc EXCEPT ![Callee] = "entered"]
    /\ UNCHANGED <<clock, now, age, svcVars, mwVars>>

\* got := CalculateAge(tt.dob) has returned; got is compared with tt.want
\* and the next case follows
EdgeReturn(k) ==
    /\ pc[Test] = EdgeName(k)
    /\ pc[Callee] = "done"
    /\ age' = SetLocal(SetLocal(age, Test, IF EdgeAfter(k) = "idle" THEN 0
                                           ELSE age[Callee]), Callee, 0)
    /\ dob' = SetLocal(SetLocal(dob, Test, IF EdgeAfter(k) = "idle" THEN NoDate
                                           ELSE dob[Test]), Callee, NoDate)
    /\ now' = SetLocal(SetLocal(now, Test, IF EdgeAfter(k) = "idle" THEN NoDate
                                           ELSE now[Test]), Callee, NoDate)
    /\ pc' = [pc EXCEPT ![Test] = EdgeAfter(k), ![Callee] = "idle"]
    /\ UNCHANGED <<clock, svcVars, mwVars>>

\* the clock date is at most n days after the date from
RECURSIVE Within(_, _, _)
Within(from, t, n) ==
    t = from \/ (n > 0 /\ Within(NextDay(from), t, n - 1))

\* midnight passes while the test runs
TestTick ==
    /\ pc[Test] # "idle"
    /\ Within(now[Test], clock, MaxTestDays - 1)
    /\ NextDay(clock) \in NowDates
    /\ clock' = NextDay(clock)
    /\ UNCHANGED <<ageVars, svcVars, mwVars>>

NextEdge ==
    \/ TestStart
    \/ \E k \in EdgeOffsets : EdgeCase(k)
    \/ ReadNow(Callee)
    \/ Compute(Callee)
    \/ \E k \in EdgeOffsets : EdgeReturn(k)
    \/ TestTick
    \/ TickIdle

SpecEdge == InitEdge /\ [][NextEdge]_vars

(***************************************************************************)
(* The users table and the queries of db/queries/users.sql.                *)
(* The database is taken to answer; connection failures are not modelled.  *)
(***************************************************************************)
\* mutant of NewId: the largest id in the table plus one
NewIdMaxPlusOne(tbl, seq) ==
    IF DOMAIN tbl = {} THEN 1
    ELSE (CHOOSE i \in DOMAIN tbl : \A j \in DOMAIN tbl : j <= i) + 1

\* id SERIAL PRIMARY KEY: the next value of the sequence
NewId(tbl, seq) == seq

\* INSERT INTO users (name, dob) VALUES ($1, $2)
InsertRow(tbl, id, name, d) ==
    [i \in DOMAIN tbl \cup {id} |->
        IF i = id THEN [name |-> name, dob |-> d] ELSE tbl[i]]

\* mutant of UpdateRow: the WHERE clause lost, every row is rewritten
UpdateRowNoWhere(tbl, id, name, d) ==
    [i \in DOMAIN tbl |-> [name |-> name, dob |-> d]]

\* UPDATE users SET name = $1, dob = $2 ... WHERE id = $3
UpdateRow(tbl, id, name, d) ==
    [i \in DOMAIN tbl |->
        IF i = id THEN [name |-> name, dob |-> d] ELSE tbl[i]]

\* DELETE FROM users WHERE id = $1
DeleteRow(tbl, id) == [i \in DOMAIN tbl \ {id} |-> tbl[i]]

\* SELECT id, name, dob ...: a row as sqlc.User
RowOf(tbl, id) == [id |-> id, name |-> tbl[id].name, dob |-> tbl[id].dob]

NoRow == [id |-> 0, name |-> "", dob |-> NoDate]

\* mutant of QueryOne: no row is no error, the zero sqlc.User comes back
QueryOneZeroRow(rows) ==
    IF rows = <<>> THEN [err |-> "", row |-> NoRow]
    ELSE [err |-> "", row |-> rows[1]]

\* a ":one" query: sql.ErrNoRows when the statement returns no row
QueryOne(rows) ==
    IF rows = <<>> THEN [err |-> "sql: no rows in result set", row |-> NoRow]
    ELSE [err |-> "", row |-> rows[1]]

\* the rows WHERE id = $1
RowsWithId(tbl, id) == IF id \in DOMAIN tbl THEN <<RowOf(tbl, id)>> ELSE <<>>

\* ORDER BY id
RECURSIVE SortedIds(_)
SortedIds(S) ==
    IF S = {} THEN <<>>
    ELSE LET m == CHOOSE i \in S : \A j \in S : i <= j
         IN  <<m>> \o SortedIds(S \ {m})

Min(a, b) == IF a <= b THEN a ELSE b

\* SELECT ... ORDER BY id LIMIT $1 OFFSET $2   (limit >= 1, offset >= 0)
SelectPage(tbl, limit, offset) ==
    LET ids == SortedIds(DOMAIN tbl)
        page == IF offset >= Len(ids) THEN <<>>
                ELSE SubSeq(ids, offset + 1, Min(Len(ids), offset + limit))
    IN  [k \in 1..Len(page) |-> RowOf(tbl, page[k])]

\* a ":many" query with LIMIT and OFFSET: PostgreSQL refuses a negative
\* OFFSET and the statement returns its error
QueryPage(tbl, limit, offset) ==
    IF offset < 0
    THEN [err |-> "pq: OFFSET must not be negative", rows |-> <<>>]
    ELSE [err |-> "", rows |-> SelectPage(tbl, limit, offset)]

(***************************************************************************)
(* The logger: an entry is its message and its fields.  fields names the   *)
(* fields the entry has; requestId, userId and status are their values     *)
(* where present.                                                          *)
(***************************************************************************)
LogEntry(msg, fields, requestId, userId, status) ==
    [msg |-> msg, fields |-> fields, requestId |-> requestId,
     userId |-> userId, status |-> status]

\* logger.Error(msg, zap.Error(err))
ErrorEntry(msg) == LogEntry(msg, {"error"}, "", 0, 0)

\* logger.Info(msg, zap.Int32("user_id", id))
UserEntry(msg, id) == LogEntry(msg, {"user_id"}, "", id, 0)

(***************************************************************************)
(* internal/service: CreateUser, UpdateUser and DeleteUser as a result     *)
(*   [err, out, users, nextId, repo, log]                                  *)
(* err the error returned ("" for nil), out the UserResponse values,       *)
(* users and nextId the table afterwards, repo whether the repository was  *)
(* called, log the entries the service writes.  GetUserByID up to the row  *)
(* it reads, as [err, row].                                                *)
(***************************************************************************)
\* models.UserResponse without Age (omitempty leaves the field out)
UserResponse(row) ==
    [id |-> row.id, name |-> row.name, dob |-> FormatTime(row.dob),
     hasAge |-> FALSE, age |-> 0]

\* models.UserResponse with Age: &age, age := models.CalculateAge(user.Dob)
UserResponseWithAge(row) ==
    [id |-> row.id, name |-> row.name, dob |-> FormatTime(row.dob),
     hasAge |-> TRUE, age |-> CalculateAge(row.dob)]

Result(err, out, tbl, seq, repo, log) ==
    [err |-> err, out |-> out, users |-> tbl, nextId |-> seq, repo |-> repo,
     log |-> log]

ServiceCreateUser(name, d) ==
    LET parsed == ParseTime(d)
        id == NewId(users, nextId)
        tbl == InsertRow(users, id, name, parsed.t)
    IN  IF ~parsed.ok
        THEN Result("invalid date format, use YYYY-MM-DD", <<>>, users, nextId,
                    FALSE, <<ErrorEntry("Invalid date format")>>)
        ELSE Result("", <<UserResponse(RowOf(tbl, id))>>, tbl, nextId + 1,
                    TRUE, <<UserEntry("User created successfully", id)>>)

\* user, err := s.repo.GetUserByID(ctx, id) and the error mapping that
\* follows: the row, or "user not found"
ServiceGetUserByID(id) ==
    LET q == QueryOne(RowsWithId(users, id))
    IN  [err |-> IF q.err # "" THEN "user not found" ELSE "", row |-> q.row]

\* if page < 1 { page = 1 }
NormalPage(page) ==
    IF page.neg \/ page.l = ZeroLimbs THEN IntOf(1) ELSE page

\* if pageSize < 1 || pageSize > 100 { pageSize = 10 }: a number in 1..100
NormalPageSize(pageSize) ==
    IF pageSize.neg \/ SmallOf(pageSize.l) < 1 \/ SmallOf(pageSize.l) > 100
    THEN 10 ELSE SmallOf(pageSize.l)

\* int32(a * b) for the int a >= 0 given in limbs and 1 <= b <= 100: the
\* low 32 bits of the product as a signed number, and whether that is the
\* product
Int32OfProduct(l, b) ==
    LET lo == l[1] * b
        hi == l[2] * b + (lo \div 65536)
        h16 == hi % 65536
    IN  [exact |-> l[3] = 0 /\ l[4] = 0 /\ hi < 32768,
         v |-> (IF h16 >= 32768 THEN h16 - 65536 ELSE h16) * 65536
               + (lo % 65536)]

\* offset := (page - 1) * pageSize, handed on as int32(offset)
ListOffset(page, pageSize) ==
    Int32OfProduct(Decrement(NormalPage(page).l), NormalPageSize(pageSize))

ServiceUpdateUser(id, name, d) ==
    LET parsed == ParseTime(d)
        tbl == UpdateRow(users, id, name, parsed.t)
        q == QueryOne(RowsWithId(tbl, id))
    IN  IF ~parsed.ok
        THEN Result("invalid date format, use YYYY-MM-DD", <<>>, users, nextId,
                    FALSE, <<ErrorEntry("Invalid date format")>>)
        ELSE IF q.err # ""
        THEN Result("user not found", <<>>, users, nextId, TRUE, <<>>)
        ELSE Result("", <<UserResponse(q.row)>>, tbl, nextId, TRUE,
                    <<UserEntry("User updated successfully", q.row.id)>>)

\* DeleteUser is ":exec": the statement's error is returned, and a DELETE
\* that matches no row is no error; the sql.ErrNoRows branch never runs
ServiceDeleteUser(id) ==
    Result("", <<>>, DeleteRow(users, id), nextId, TRUE,
           <<UserEntry("User deleted successfully", id)>>)

(***************************************************************************)
(* internal/handler.  A request is served by its own goroutine.  What the  *)
(* goroutines share is the table and the clock.  A step of the model is    *)
(* one access to them, the request-local code before it and the code after *)
(* it up to the next access or, after the last one, to the answer:         *)
(*   - a request the handler rejects is answered in one step;              *)
(*   - CreateUser, UpdateUser and DeleteUser send one statement and wait   *)
(*     for the reply of the database; with the reply the service logs and  *)
(*     the handler writes the response, in a later step (Reply).  So does  *)
(*     a GetUserByID whose SELECT returns no row and a ListUsers whose     *)
(*     SELECT fails;                                                       *)
(*   - GetUserByID reads the row and later the clock (GetCompute);         *)
(*   - ListUsers reads the rows, counts the users, reads the clock once    *)
(*     per row and answers.                                                *)
(* Between the steps of a request, the steps of the requests on the other  *)
(* goroutines and midnight fall as the specification in use allows.  A     *)
(* handler runs either as the route of the request in the middleware chain *)
(* or on its own.                                                          *)
(***************************************************************************)
Response(status, error, list, body) ==
    [status |-> status, error |-> error, list |-> list, body |-> body]

\* the entries of the request once the handler has logged entries
Logged(entries) ==
    IF mw.pc \in {"route", "handler"} THEN logs \o entries ELSE entries

\* the fiber.Ctx once the handler has written the response and returned nil
Handled(response) ==
    IF mw.pc \in {"route", "handler"}
    THEN [mw EXCEPT !.pc = "logged", !.status = response.status,
                    !.body = response.error]
    ELSE mw

\* the entries are logged and the response is written
Respond(request, response, layers, entries) ==
    /\ req' = request
    /\ resp' = response
    /\ trace' = layers
    /\ logs' = Logged(entries)
    /\ mw' = Handled(response)
    /\ UNCHANGED <<clock, ageVars, users, nextId, everIds>>

\* a request answered without a statement
Answer(request, response, layers, entries) ==
    /\ Respond(request, response, layers, entries)
    /\ calls' = calls

\* the handler returned before calling the service
Reject(request, error, entries) ==
    Answer(request, Response(400, error, FALSE, <<>>), {}, entries)

\* the requests that are reading have seen the table tbl on the date t
Observe(tbl, t) ==
    [g \in Goroutines |->
        [calls[g] EXCEPT
           !.seen = [k \in DOMAIN @ |->
                       @[k] \cup {[on |-> t, dob |-> tbl[i].dob] :
                                     i \in {calls[g].rows[k].id} \cap DOMAIN tbl}]]]

\* a goroutine sends the statement of its request and waits for the reply:
\* the table is tbl and the sequence seq after the statement, c is what the
\* goroutine holds
Start(c, tbl, seq) ==
    /\ \E g \in Goroutines : calls[g].pc = "idle"
    /\ LET g == CHOOSE g \in Goroutines :
                   /\ calls[g].pc = "idle"
                   /\ \A h \in Goroutines : h < g => calls[h].pc # "idle"
       IN  calls' = [Observe(tbl, clock) EXCEPT ![g] = c]
    /\ users' = tbl
    /\ nextId' = seq
    /\ everIds' = everIds \cup DOMAIN tbl
    /\ mw' = IF mw.pc = "route" THEN [mw EXCEPT !.pc = "handler"] ELSE mw
    /\ UNCHANGED <<clock, ageVars, req, resp, trace, logs>>

Layers(r) == IF r.repo THEN {"service", "repo"} ELSE {"service"}

\* the handler has called the service.  When the service sends a statement
\* the goroutine waits for the reply, r; what the service then logs and the
\* handler answers follows from r and is written by Reply.  When the
\* service returns without a statement the handler answers at once.
Serve(request, response, r, entries) ==
    IF r.repo
    THEN Start([NoCall EXCEPT !.pc = "stated", !.req = request,
                              !.resp = response, !.layers = Layers(r),
                              !.log = r.log \o entries],
               r.users, r.nextId)
    ELSE Answer(request, response, Layers(r), r.log \o entries)

\* the reply of the database has arrived: the service logs and returns, the
\* handler logs and writes the response
Reply(g) ==
    /\ calls[g].pc = "stated"
    /\ Respond(calls[g].req, calls[g].resp, calls[g].layers, calls[g].log)
    /\ calls' = [calls EXCEPT ![g] = NoCall]

\* c.QueryInt(key, def): strconv.Atoi of the parameter, the default when
\* it is absent or no int
QueryInt(s, def) == IF Atoi(s).ok THEN Atoi(s).v ELSE IntOf(def)

\* POST /users
CreateUser(body) ==
    LET request == [NoReq EXCEPT !.op = "create", !.bodyOk = body.ok,
                                 !.name = body.name, !.dob = body.dob]
        invalid == Validate("CreateUserRequest", body.name, body.dob)
        r == ServiceCreateUser(body.name, body.dob)
    IN  IF ~body.ok
        THEN Reject(request, "Invalid request body",
                    <<ErrorEntry("Failed to parse request body")>>)
        ELSE IF invalid # ""
        THEN Reject(request, "Validation failed: " \o invalid,
                    <<ErrorEntry("Validation failed")>>)
        ELSE IF r.err # ""
        THEN Serve(request, Response(500, "Failed to create user", FALSE, <<>>),
                   r, <<ErrorEntry("Failed to create user")>>)
        ELSE Serve(request, Response(201, "", FALSE, r.out), r, <<>>)

\* the rows a SELECT has returned to the request, read on the date t
Selected(request, rows, t) ==
    [NoCall EXCEPT !.pc = "selected", !.req = request, !.rows = rows,
                   !.seen = [k \in DOMAIN rows |->
                               {[on |-> t, dob |-> rows[k].dob]}]]

\* GET /users/:id up to the reply of the database: the id is parsed and the
\* service sends the SELECT.  An id that is no int32 is answered 400.  When
\* the SELECT returns no row the service returns "user not found" and the
\* handler answers 404, on another error the service logs and the handler
\* logs and answers 500; with the row in hand the request goes on to
\* GetCompute.
GetUserByID(idParam) ==
    LET request == [NoReq EXCEPT !.op = "get", !.id = idParam]
        id == ParseInt32(idParam)
        r == ServiceGetUserByID(id.v)
    IN  IF ~id.ok THEN Reject(request, "Invalid user ID", <<>>)
        ELSE IF r.err = "user not found"
        THEN Serve(request, Response(404, "User not found", FALSE, <<>>),
                   Result(r.err, <<>>, users, nextId, TRUE, <<>>), <<>>)
        ELSE IF r.err # ""
        THEN Serve(request, Response(500, "Failed to get user", FALSE, <<>>),
                   Result(r.err, <<>>, users, nextId, TRUE,
                          <<UserEntry("Failed to get user", id.v)>>),
                   <<ErrorEntry("Failed to get user")>>)
        ELSE Start(Selected(request, <<r.row>>, clock), users, nextId)

\* GET /users/:id from the row on: age := models.CalculateAge(user.Dob),
\* the service returns the UserResponse and the handler writes it
GetCompute(g) ==
    /\ calls[g].pc = "selected"
    /\ calls[g].req.op = "get"
    /\ Respond(calls[g].req,
               Response(200, "", FALSE,
                        <<UserResponseWithAge(calls[g].rows[1])>>),
               {"service", "repo"}, <<>>)
    /\ calls' = [calls EXCEPT ![g] = NoCall]

\* PUT /users/:id
UpdateUser(idParam, body) ==
    LET request == [NoReq EXCEPT !.op = "update", !.id = idParam,
                                 !.bodyOk = body.ok,
                                 !.name = body.name, !.dob = body.dob]
        id == ParseInt32(idParam)
        invalid == Validate("UpdateUserRequest", body.name, body.dob)
        r == ServiceUpdateUser(id.v, body.name, body.dob)
    IN  IF ~id.ok THEN Reject(request, "Invalid user ID", <<>>)
        ELSE IF ~body.ok
        THEN Reject(request, "Invalid request body",
                    <<ErrorEntry("Failed to parse request body")>>)
        ELSE IF invalid # ""
        THEN Reject(request, "Validation failed: " \o invalid,
                    <<ErrorEntry("Validation failed")>>)
        ELSE IF r.err = "user not found"
        THEN Serve(request, Response(404, "User not found", FALSE, <<>>), r, <<>>)
        ELSE IF r.err # ""
        THEN Serve(request, Response(500, "Failed to update user", FALSE, <<>>),
                   r, <<ErrorEntry("Failed to update user")>>)
        ELSE Serve(request, Response(200, "", FALSE, r.out), r, <<>>)

\* DELETE /users/:id
DeleteUser(idParam) ==
    LET request == [NoReq EXCEPT !.op = "delete", !.id = idParam]
        id == ParseInt32(idParam)
        r == ServiceDeleteUser(id.v)
    IN  IF ~id.ok THEN Reject(request, "Invalid user ID", <<>>)
        ELSE IF r.err = "user not found"
        THEN Serve(request, Response(404, "User not found", FALSE, <<>>), r, <<>>)
        ELSE IF r.err # ""
        THEN Serve(request, Response(500, "Failed to delete user", FALSE, <<>>),
                   r, <<ErrorEntry("Failed to delete user")>>)
        ELSE Serve(request, Response(204, "", FALSE, <<>>), r, <<>>)

\* GET /health: return c.JSON(fiber.Map{"status": "ok"})
Health ==
    Answer([NoReq EXCEPT !.op = "health"],
           Response(200, "", FALSE, <<[status |-> "ok"]>>), {}, <<>>)

(***************************************************************************)
(* GET /users, statement by statement: the rows are read, the users are    *)
(* counted, the loop of the service computes one age per row it holds, the *)
(* handler writes the response.                                            *)
(***************************************************************************)
\* s.repo.ListUsers(ctx, int32(pageSize), int32(offset)) of a list request
ListedPage(r) ==
    QueryPage(users, NormalPageSize(QueryInt(r.pageSize, 10)),
              ListOffset(QueryInt(r.page, 1), QueryInt(r.pageSize, 10)).v)

\* the handler reads page and page_size and calls the service, which sends
\* the SELECT.  When the statement fails the service logs and returns the
\* error, and the handler logs and answers 500.
ListUsers(pageParam, sizeParam) ==
    LET request == [NoReq EXCEPT !.op = "list", !.page = pageParam,
                                 !.pageSize = sizeParam]
        q == ListedPage(request)
    IN  IF q.err # ""
        THEN Serve(request, Response(500, "Failed to list users", FALSE, <<>>),
                   Result(q.err, <<>>, users, nextId, TRUE,
                          <<ErrorEntry("Failed to list users")>>),
                   <<ErrorEntry("Failed to list users")>>)
        ELSE Start(Selected(request, q.rows, clock), users, nextId)

\* total, err := s.repo.CountUsers(ctx)
CountUsers(g) ==
    /\ calls[g].pc = "selected"
    /\ calls[g].req.op = "list"
    /\ calls' = [calls EXCEPT ![g].pc = "counted"]
    /\ UNCHANGED <<clock, ageVars, users, nextId, everIds, req, resp, trace,
                   mwVars>>

\* one iteration of  for _, user := range users:
\* age := models.CalculateAge(user.Dob); responses = append(responses, ...)
ListAppend(g) ==
    /\ calls[g].pc = "counted"
    /\ Len(calls[g].body) < Len(calls[g].rows)
    /\ calls' = [calls EXCEPT
                   ![g].body = Append(@, UserResponseWithAge(
                                            calls[g].rows[Len(@) + 1]))]
    /\ UNCHANGED <<clock, ageVars, users, nextId, everIds, req, resp, trace,
                   mwVars>>

\* return responses, total, nil; return c.JSON(responses)
ListReturn(g) ==
    /\ calls[g].pc = "counted"
    /\ Len(calls[g].body) = Len(calls[g].rows)
    /\ Respond(calls[g].req, Response(200, "", TRUE, calls[g].body),
               {"service", "repo", "count"}, <<>>)
    /\ calls' = [calls EXCEPT ![g] = NoCall]

(***************************************************************************)
(* SpecService: the five handlers over a table of at most MaxUsers ids,    *)
(* with valid and invalid names, dates and ids, on the day before and the  *)
(* day of a stored birthday.  The requests come one after the other: a     *)
(* request arrives when the one before has been answered.  Midnight may    *)
(* pass while a request is served.  Concurrent requests are in SpecRead.   *)
(***************************************************************************)
SvcNowDates == {Date(2024, 12, 17), Date(2024, 12, 18)}

SvcNames == {"", "A", Repeat("n", 255), Repeat("n", 256)}

\* absent; born 1990-12-18; born in the future; no such day; wrong order
SvcDobs == {"", "1990-12-18", "2030-01-01", "2023-02-29", "18-12-1990"}

\* a body that is no JSON; every name with a valid date; every date with a
\* valid name; a body with both fields invalid
SvcBodies ==
    {Body(FALSE, "", "")}
    \cup {Body(TRUE, n, "1990-12-18") : n \in SvcNames}
    \cup {Body(TRUE, "A", d) : d \in SvcDobs}
    \cup {Body(TRUE, "", "18-12-1990")}

\* the ids the table can hold, no number, and the smallest int32, an id no
\* user ever has
SvcIdParams == {Itoa(i) : i \in 1..MaxUsers} \cup {"abc", "-2147483648"}

InitSvc ==
    /\ InitService
    /\ clock \in SvcNowDates
    /\ pc = [p \in {1} |-> "idle"]
    /\ dob = [p \in {1} |-> NoDate]
    /\ now = [p \in {1} |-> NoDate]
    /\ age = [p \in {1} |-> 0]

\* no request is between its statement and its answer
Quiet == \A g \in Goroutines : calls[g].pc = "idle"

\* midnight passes, between two requests or while a request is served
TickSvc ==
    /\ NextDay(clock) \in SvcNowDates
    /\ clock' = NextDay(clock)
    /\ calls' = Observe(users, NextDay(clock))
    /\ UNCHANGED <<ageVars, users, nextId, everIds, req, resp, trace, mwVars>>

NextSvc ==
    \/ Quiet /\ nextId <= MaxUsers /\ \E b \in SvcBodies : CreateUser(b)
    \/ Quiet /\ \E i \in SvcIdParams : GetUserByID(i)
    \/ Quiet /\ ListUsers("", "")
    \/ Quiet /\ \E i \in SvcIdParams, b \in SvcBodies : UpdateUser(i, b)
    \/ Quiet /\ \E i \in SvcIdParams : DeleteUser(i)
    \/ \E g \in Goroutines : Reply(g)
    \/ \E g \in Goroutines : GetCompute(g)
    \/ \E g \in Goroutines : CountUsers(g)
    \/ \E g \in Goroutines : ListAppend(g)
    \/ \E g \in Goroutines : ListReturn(g)
    \/ TickSvc

SpecService == InitSvc /\ [][NextSvc]_vars

(***************************************************************************)
(* SpecList: a table that grows past one page: up to MaxListUsers users,   *)
(* all with the same valid name and date of birth, created, listed page by *)
(* page, and the first and the last of them deleted.  The table does not   *)
(* change while a list request is served.                                  *)
(***************************************************************************)
ListBody == Body(TRUE, "A", "1990-12-18")

\* the first and the last id are deleted
ListIdParams == {Itoa(1), Itoa(MaxListUsers)}

\* ?page=: absent, below 1, the second and third page, pages far beyond the
\* table (below and above 2^31), a number that is no int
ListPages == {"", "-1", "2", "3", "214748366", "429496731",
              "2147483648", "4294967297", "9223372036854775808"}

\* ?page_size=: absent, below 1, three to a page, the largest size, above it
ListSizes == {"", "0", "3", "100", "101"}

NextList ==
    \/ Quiet /\ nextId <= MaxListUsers /\ CreateUser(ListBody)
    \/ Quiet /\ \E i \in ListIdParams : DeleteUser(i)
    \/ Quiet /\ \E p \in ListPages, sz \in ListSizes : ListUsers(p, sz)
    \/ \E g \in Goroutines : Reply(g)
    \/ \E g \in Goroutines : CountUsers(g)
    \/ \E g \in Goroutines : ListAppend(g)
    \/ \E g \in Goroutines : ListReturn(g)

SpecList == InitSvc /\ [][NextList]_vars

(***************************************************************************)
(* SpecListLoop: list requests over users with equal and different dates   *)
(* of birth while midnight passes.                                         *)
(***************************************************************************)
LoopBodies == {Body(TRUE, "A", "1990-12-18"), Body(TRUE, "B", "1990-12-18"),
               Body(TRUE, "A", "2030-01-01")}

NextListLoop ==
    \/ Quiet /\ nextId <= MaxUsers /\ \E b \in LoopBodies : CreateUser(b)
    \/ Quiet /\ ListUsers("", "")
    \/ \E g \in Goroutines : Reply(g)
    \/ \E g \in Goroutines : CountUsers(g)
    \/ \E g \in Goroutines : ListAppend(g)
    \/ \E g \in Goroutines : ListReturn(g)
    \/ TickSvc

SpecListLoop == InitSvc /\ [][NextListLoop]_vars

(***************************************************************************)
(* SpecRead: requests served concurrently, as many at a time as there are  *)
(* goroutines.  While a request is between its statement and its answer,   *)
(* users are created, read, updated and deleted by other requests and      *)
(* midnight passes.                                                        *)
(***************************************************************************)
\* born on 18 December 1990; renamed and born on 1 January 2030
ReadBodies == {Body(TRUE, "A", "1990-12-18"), Body(TRUE, "B", "2030-01-01")}

\* the id of the user the requests address
ReadIdParams == {"1"}

NextRead ==
    \/ Itoa(nextId) \in ReadIdParams /\ \E b \in ReadBodies : CreateUser(b)
    \/ \E i \in ReadIdParams : GetUserByID(i)
    \/ ListUsers("", "")
    \/ \E i \in ReadIdParams, b \in ReadBodies : UpdateUser(i, b)
    \/ \E i \in ReadIdParams : DeleteUser(i)
    \/ \E g \in Goroutines : Reply(g)
    \/ \E g \in Goroutines : GetCompute(g)
    \/ \E g \in Goroutines : CountUsers(g)
    \/ \E g \in Goroutines : ListAppend(g)
    \/ \E g \in Goroutines : ListReturn(g)
    \/ TickSvc

SpecRead == InitSvc /\ [][NextRead]_vars

(***************************************************************************)
(* SpecMiddleware: requests through the chain of cmd/server/main.go,       *)
(*   cors -> RequestIDMiddleware -> RecoveryMiddleware -> LoggerMiddleware *)
(*        -> route,                                                        *)
(* one middleware step at a time, up to MaxRequests requests one after the *)
(* other.                                                                  *)
(***************************************************************************)
\* X-Request-ID of the request: absent, or sent by the client
MwHeaders == {"", "abc"}

\* GET /health; POST /users; GET /users/1; GET /users without parameters
\* and with a page whose offset is negative as an int32; PUT /users/1 with a
\* name that is too long; DELETE /users/1; a path without route; a handler
\* that panics
MwRoutes ==
    {Route("handler", "health", "", NoBody, "", ""),
     Route("handler", "create", "", ListBody, "", ""),
     Route("handler", "get", "1", NoBody, "", ""),
     Route("handler", "list", "", NoBody, "", ""),
     Route("handler", "list", "", NoBody, "214748366", ""),
     Route("handler", "update", "1",
           Body(TRUE, Repeat("n", 256), "1990-12-18"), "", ""),
     Route("handler", "delete", "1", NoBody, "", ""),
     NoRoute,
     Route("panic", "", "", NoBody, "", "")}

\* uuid.New().String(): the k-th value generated by the process
Uuid(k) == "uuid-" \o Itoa(k)

\* mutant of RequestID: the header as it came, nothing generated
RequestIDHeaderOnly(hdr, k) == hdr

\* requestID := c.Get("X-Request-ID"); if requestID == "" { uuid.New() }
RequestID(hdr, k) == IF hdr = "" THEN Uuid(k) ELSE hdr

\* logger.Info("Incoming request", request_id, method, path, ip)
IncomingEntry(id) ==
    LogEntry("Incoming request", {"request_id", "method", "path", "ip"}, id, 0, 0)

\* logger.Info("Request completed", request_id, method, path, status, duration)
CompletedEntry(id, status) ==
    LogEntry("Request completed",
             {"request_id", "method", "path", "status", "duration"}, id, 0, status)

\* logger.Error("Panic recovered", request_id, panic)
PanicEntry(id) == LogEntry("Panic recovered", {"request_id", "panic"}, id, 0, 0)

\* a request reaches the server; nothing has been logged for it
Arrive(hdr, route, preflight) ==
    /\ mw.pc \in {"idle", "sent"}
    /\ mw.n < MaxRequests
    /\ mw' = [NoCtx EXCEPT !.pc = "cors", !.n = mw.n + 1,
                           !.preflight = preflight, !.hdrIn = hdr,
                           !.route = route, !.uuids = mw.uuids,
                           !.recovered = mw.recovered,
                           !.ids = IF mw.localSet THEN mw.ids \cup {mw.local}
                                   ELSE mw.ids]
    /\ logs' = <<>>
    /\ UNCHANGED <<clock, ageVars, svcVars>>

\* cors.New(): a preflight request is answered 204 by the middleware, any
\* other request goes on
Cors ==
    /\ mw.pc = "cors"
    /\ mw' = IF mw.preflight
             THEN [mw EXCEPT !.pc = "sent", !.status = 204]
             ELSE [mw EXCEPT !.pc = "requestid"]
    /\ UNCHANGED <<clock, ageVars, svcVars, logs>>

\* RequestIDMiddleware up to c.Next()
RequestIDMiddleware ==
    /\ mw.pc = "requestid"
    /\ LET generated == mw.hdrIn = ""
           id == RequestID(mw.hdrIn, mw.uuids + 1)
       IN  mw' = [mw EXCEPT !.pc = "recovery",
                            !.uuids = IF generated THEN @ + 1 ELSE @,
                            !.hdrOut = id,
                            !.localSet = TRUE, !.local = id]
    /\ UNCHANGED <<clock, ageVars, svcVars, logs>>

\* RecoveryMiddleware up to c.Next(): the deferred function is registered
RecoveryMiddleware ==
    /\ mw.pc = "recovery"
    /\ mw' = [mw EXCEPT !.pc = "logger"]
    /\ UNCHANGED <<clock, ageVars, svcVars, logs>>

\* LoggerMiddleware up to c.Next(): c.Locals("requestID").(string) panics
\* when the local was never set
LoggerMiddleware ==
    /\ mw.pc = "logger"
    /\ IF mw.localSet
       THEN /\ logs' = Append(logs, IncomingEntry(mw.local))
            /\ mw' = [mw EXCEPT !.pc = "route"]
       ELSE /\ logs' = logs
            /\ mw' = [mw EXCEPT !.pc = "deferred", !.panicking = TRUE]
    /\ UNCHANGED <<clock, ageVars, svcVars>>

\* the route of the request is a handler of SetupRoutes: it runs, up to the
\* response when it rejects the request and up to its statement otherwise;
\* it then goes on with Reply, with GetCompute or with CountUsers,
\* ListAppend and ListReturn.
RouteHandler ==
    /\ mw.pc = "route"
    /\ mw.route.kind = "handler"
    /\ CASE mw.route.op = "health" -> Health
         [] mw.route.op = "create" -> CreateUser(mw.route.body)
         [] mw.route.op = "get" -> GetUserByID(mw.route.id)
         [] mw.route.op = "list" -> ListUsers(mw.route.page, mw.route.pageSize)
         [] mw.route.op = "update" -> UpdateUser(mw.route.id, mw.route.body)
         [] mw.route.op = "delete" -> DeleteUser(mw.route.id)

\* no route matches: fiber returns the error 404 to the middleware, the
\* response is untouched
RouteMissing ==
    /\ mw.pc = "route"
    /\ mw.route.kind = "none"
    /\ mw' = [mw EXCEPT !.pc = "logged", !.err = 404]
    /\ UNCHANGED <<clock, ageVars, svcVars, logs>>

\* the handler panics
RoutePanics ==
    /\ mw.pc = "route"
    /\ mw.route.kind = "panic"
    /\ mw' = [mw EXCEPT !.pc = "deferred", !.panicking = TRUE]
    /\ UNCHANGED <<clock, ageVars, svcVars, logs>>

\* LoggerMiddleware after c.Next() has returned:
\* zap.Int("status", c.Response().StatusCode()); return err
LoggerCompleted ==
    /\ mw.pc = "logged"
    /\ logs' = Append(logs, CompletedEntry(mw.local, mw.status))
    /\ mw' = [mw EXCEPT !.pc = "deferred"]
    /\ UNCHANGED <<clock, ageVars, svcVars>>

\* mutant of Recovered: the panic is logged and goes on
RecoveredRepanics(m) == [m EXCEPT !.pc = "crashed"]

\* the deferred function after recover() returned the panic: the response
\* is 500 with the error body, the middleware returns nil
Recovered(m) ==
    [m EXCEPT !.pc = "handled", !.panicking = FALSE, !.err = 0,
              !.status = 500, !.body = "Internal server error",
              !.recovered = @ + 1]

\* RecoveryMiddleware's deferred function.  Its read of
\* c.Locals("requestID").(string) panics when the local was never set, and
\* a panic of the deferred function is recovered by nobody.
RecoveryDeferred ==
    /\ mw.pc = "deferred"
    /\ IF ~mw.panicking
       THEN /\ mw' = [mw EXCEPT !.pc = "handled"]
            /\ logs' = logs
       ELSE IF ~mw.localSet
       THEN /\ mw' = [mw EXCEPT !.pc = "crashed"]
            /\ logs' = logs
       ELSE /\ mw' = Recovered(mw)
            /\ logs' = Append(logs, PanicEntry(mw.local))
    /\ UNCHANGED <<clock, ageVars, svcVars>>

\* the chain has returned to fiber: an error goes to customErrorHandler,
\* which writes its status and message; the response is sent
CustomErrorHandler ==
    /\ mw.pc = "handled"
    /\ mw' = IF mw.err # 0
             THEN [mw EXCEPT !.pc = "sent", !.status = mw.err,
                             !.body = "Cannot GET /nope"]
             ELSE [mw EXCEPT !.pc = "sent"]
    /\ UNCHANGED <<clock, ageVars, svcVars, logs>>

NextMiddleware ==
    \/ \E h \in MwHeaders, r \in MwRoutes : Arrive(h, r, FALSE)
    \/ Arrive("", NoRoute, TRUE)
    \/ Cors
    \/ RequestIDMiddleware
    \/ RecoveryMiddleware
    \/ LoggerMiddleware
    \/ RouteHandler
    \/ \E g \in Goroutines : Reply(g)
    \/ \E g \in Goroutines : GetCompute(g)
    \/ \E g \in Goroutines : CountUsers(g)
    \/ \E g \in Goroutines : ListAppend(g)
    \/ \E g \in Goroutines : ListReturn(g)
    \/ RouteMissing
    \/ RoutePanics
    \/ LoggerCompleted
    \/ RecoveryDeferred
    \/ CustomErrorHandler

SpecMiddleware == InitSvc /\ [][NextMiddleware]_vars

(***************************************************************************)
(* Properties of CalculateAge, checked under Spec.                         *)
(* A finished call is  pc[p] = "done":  dob[p] is the date of birth it was *)
(* given, now[p] the clock date it read, age[p] the value it returned.     *)
(***************************************************************************)
Done(p) == pc[p] = "done"

\* (month, day) as one number: the lexicographic order of the pairs
MonthDay(t) == t.month * 100 + t.day

\* (year, month, day) as one number: the order of calendar dates
Ordinal(t) == t.year * 10000 + t.month * 100 + t.day

\* C1: for every pair of valid dates the age is now.year - dob.year, minus 1
\* if and only if (now.month, now.day) is lexicographically smaller than
\* (dob.month, dob.day); nothing else is adjusted.
C1_AgeFormula ==
    \A p \in DOMAIN pc :
        Done(p) =>
            /\ IsValidDate(now[p]) /\ IsValidDate(dob[p])
            /\ age[p] = (now[p].year - dob[p].year)
                        - (IF MonthDay(now[p]) < MonthDay(dob[p]) THEN 1 ELSE 0)

\* a call whose birthday comes later in the same month: the decrement applies
C1_Witness ==
    \E p \in DOMAIN pc :
        /\ Done(p)
        /\ now[p].month = dob[p].month /\ now[p].day < dob[p].day
        /\ age[p] = now[p].year - dob[p].year - 1

\* C2: on the birthday itself, 30 years after the date of birth, the age is
\* 30: the birthday counts as already occurred.
C2_BirthdayToday ==
    \A p \in DOMAIN pc :
        (/\ Done(p)
         /\ dob[p].year = now[p].year - 30
         /\ dob[p].month = now[p].month
         /\ dob[p].day = now[p].day)
        => age[p] = 30

\* the 30th birthday, on the last day of a year
C2_Witness ==
    \E p \in DOMAIN pc :
        /\ Done(p)
        /\ dob[p] = Date(now[p].year - 30, 12, 31)
        /\ now[p].month = 12 /\ now[p].day = 31
        /\ age[p] = 30

\* C3: the day before the 30th birthday (same month, day D - 1) the age is 29.
C3_DayBefore ==
    \A p \in DOMAIN pc :
        (/\ Done(p)
         /\ dob[p].year = now[p].year - 30
         /\ dob[p].month = now[p].month
         /\ dob[p].day - 1 = now[p].day)
        => age[p] = 29

\* the day before a 30th birthday that falls on the last day of a month
C3_Witness ==
    \E p \in DOMAIN pc :
        /\ Done(p)
        /\ dob[p].year = now[p].year - 30
        /\ dob[p].month = now[p].month
        /\ dob[p].day = DaysIn(dob[p].year, dob[p].month)
        /\ now[p].day = dob[p].day - 1
        /\ age[p] = 29

\* C4: the day after the 30th birthday (same month, day D + 1) the age is 30.
C4_DayAfter ==
    \A p \in DOMAIN pc :
        (/\ Done(p)
         /\ dob[p].year = now[p].year - 30
         /\ dob[p].month = now[p].month
         /\ dob[p].day + 1 = now[p].day)
        => age[p] = 30

\* the day after a 30th birthday that fell on the first of a month
C4_Witness ==
    \E p \in DOMAIN pc :
        /\ Done(p)
        /\ dob[p].year = now[p].year - 30
        /\ dob[p].month = now[p].month
        /\ dob[p].day = 1 /\ now[p].day = 2
        /\ age[p] = 30

\* C5: with the clock at 2024-12-18 the dates of birth 1990-12-25, 1990-01-15
\* and 1990-12-18 give the ages 33, 34 and 34.
C5_Fixtures ==
    \A p \in DOMAIN pc :
        (Done(p) /\ now[p] = Date(2024, 12, 18)) =>
            /\ dob[p] = Date(1990, 12, 25) => age[p] = 33
            /\ dob[p] = Date(1990, 1, 15) => age[p] = 34
            /\ dob[p] = Date(1990, 12, 18) => age[p] = 34

\* the call for 1990-12-25 on 2024-12-18 has returned 33
C5_Witness ==
    \E p \in DOMAIN pc :
        /\ Done(p)
        /\ now[p] = Date(2024, 12, 18)
        /\ dob[p] = Date(1990, 12, 25)
        /\ age[p] = 33

\* C6: a date of birth on or before the clock date gives an age >= 0, and one
\* at most 150 years before the clock date gives an age <= 150.
C6_NonNegative ==
    \A p \in DOMAIN pc :
        (Done(p) /\ Ordinal(dob[p]) <= Ordinal(now[p])) =>
            /\ age[p] >= 0
            /\ Ordinal(dob[p]) >= Ordinal(now[p]) - 150 * 10000 => age[p] <= 150

\* born the day before the clock date: age 0; the smallest case of the claim
C6_Witness ==
    \E p \in DOMAIN pc :
        /\ Done(p)
        /\ now[p] = NextDay(dob[p])
        /\ age[p] = 0

\* C8: a date of birth on 29 February of a leap year L, seen from a non-leap
\* year Y > L, gives Y - L - 1 on 28 February and Y - L on 1 March: the
\* (month, day) pairs are compared as plain integers, with no special case.
C8_LeapDay ==
    \A p \in DOMAIN pc :
        (/\ Done(p)
         /\ dob[p].month = 2 /\ dob[p].day = 29
         /\ ~IsLeap(now[p].year)
         /\ now[p].year > dob[p].year)
        =>
            /\ (now[p].month = 2 /\ now[p].day = 28)
                   => age[p] = now[p].year - dob[p].year - 1
            /\ (now[p].month = 3 /\ now[p].day = 1)
                   => age[p] = now[p].year - dob[p].year
            /\ age[p] = (now[p].year - dob[p].year)
                        - (IF MonthDay(now[p]) < MonthDay(dob[p]) THEN 1 ELSE 0)

\* born 2024-02-29, seen on 28 February of a non-leap year: not yet a year older
C8_Witness ==
    \E p \in DOMAIN pc :
        /\ Done(p)
        /\ dob[p] = Date(2024, 2, 29)
        /\ ~IsLeap(now[p].year)
        /\ now[p].month = 2 /\ now[p].day = 28
        /\ age[p] = now[p].year - 2024 - 1

\* C9: a date of birth after the clock date raises no error (the call
\* returns an integer) and the value is never positive.
C9_FutureDob ==
    \A p \in DOMAIN pc :
        (Done(p) /\ Ordinal(dob[p]) > Ordinal(now[p])) =>
            /\ age[p] \in Int
            /\ age[p] <= 0

\* a date of birth in a later year than the clock's has been answered
C9_Witness ==
    \E p \in DOMAIN pc :
        /\ Done(p)
        /\ dob[p].year > now[p].year
        /\ Ordinal(dob[p]) > Ordinal(now[p])
        /\ age[p] < 0

(***************************************************************************)
(* Properties of concurrent and repeated calls, checked under SpecConc.    *)
(***************************************************************************)
\* C7: the age is a function of the date of birth and a reference instant
\* the caller supplies, and of nothing else.  The caller of CalculateAge
\* supplies the date of birth only, so two finished calls with the same date
\* of birth carry the same age.
C7_AsClaimed ==
    \A p, q \in DOMAIN pc :
        (Done(p) /\ Done(q) /\ dob[p] = dob[q]) => age[p] = age[q]

\* C10: concurrent calls do not interfere.  A step of one call changes
\* neither the clock nor the locals of any other call, and a call that
\* finishes returns the value a call alone returns for the same date of birth
\* and the clock date it read.
C10_NoInterference ==
    [][\A p \in DOMAIN pc :
          pc'[p] # pc[p] =>
            /\ clock' = clock
            /\ \A q \in DOMAIN pc \ {p} :
                  dob'[q] = dob[q] /\ now'[q] = now[q] /\ age'[q] = age[q]
            /\ pc'[p] = "done" =>
                  age'[p] = (now[p].year - dob[p].year)
                            - (IF MonthDay(now[p]) < MonthDay(dob[p])
                               THEN 1 ELSE 0)]_vars

\* two calls for the same date of birth have run interleaved across midnight
\* and returned different ages
C10_Witness ==
    \E p, q \in DOMAIN pc :
        /\ Done(p) /\ Done(q)
        /\ dob[p] = dob[q]
        /\ now[p] # now[q]
        /\ age[p] # age[q]

(***************************************************************************)
(* Properties of the HTTP service, checked under SpecService, SpecList and *)
(* SpecRead.  A request is handled in the step in which its outcome is     *)
(* settled: the step that rejects it, or the step of its statement when    *)
(* its answer follows from the reply of the database.  In that step        *)
(* Served.req is the request and Served.resp its response, users the table *)
(* before and users' the table after.  A GetUserByID or ListUsers request  *)
(* that has its rows is computed in the step of its answer, with req' the  *)
(* request and resp' the response.  The other steps of a request (the      *)
(* SELECT of a read that returns rows, the count, an iteration of the      *)
(* loop, the Reply that writes a response settled before) and the steps of *)
(* the middleware around the handler handle nothing.                       *)
(***************************************************************************)
Served ==
    LET stating == {g \in Goroutines :
                       calls[g].pc = "idle" /\ calls'[g].pc = "stated"}
        held == calls'[CHOOSE g \in stating : TRUE]
    IN  IF stating = {} THEN [req |-> req', resp |-> resp']
        ELSE [req |-> held.req, resp |-> held.resp]

Handles(ops) ==
    /\ clock' = clock
    /\ mw' = mw \/ (mw.pc \in {"route", "handler"} /\ mw.route.kind = "handler")
    /\ \A g \in Goroutines :
          \/ calls'[g].pc = calls[g].pc /\ calls'[g].body = calls[g].body
          \/ calls[g].pc = "idle" /\ calls'[g].pc = "stated"
    /\ Served.req.op \in ops

Computed(ops) ==
    \E g \in Goroutines :
        /\ calls[g].pc \in {"selected", "counted"}
        /\ calls'[g].pc = "idle"
        /\ calls[g].req.op \in ops

\* a Reply writes the request and the response the goroutine holds since
\* the statement, and leaves the table alone
RepliesAsHeld ==
    \A g \in Goroutines :
        (calls[g].pc = "stated" /\ calls'[g].pc = "idle") =>
            /\ req' = calls[g].req
            /\ resp' = calls[g].resp
            /\ users' = users
            /\ nextId' = nextId

\* the id a request addresses
ReqId(r) == ParseInt32(r.id)

\* the request's name and dob are what the API accepts
ValidInput(r) ==
    /\ r.bodyOk
    /\ Len(r.name) \in 1..255
    /\ ParseTime(r.dob).ok

\* s contains sub
Contains(s, sub) ==
    \E i \in 1..(Len(s) - Len(sub) + 1) : SubSeq(s, i, i + Len(sub) - 1) = sub

\* the age of the date of birth d on the date t
AgeOn(t, d) == (t.year - d.year) - (IF MonthDay(t) < MonthDay(d) THEN 1 ELSE 0)

\* C11 as claimed: the age of a user in a GetUserByID or ListUsers response
\* is the age of the dob stored for that user on the current date, at the
\* time of the read: at some moment between the SELECT of the request and
\* its answer the table held a dob for the user of which, on the date of
\* that moment, the age is the one in the response.
C11_AsClaimed ==
    [][\A g \in Goroutines :
          (calls[g].pc \in {"selected", "counted"} /\ calls'[g].pc = "idle") =>
              \A k \in 1..Len(resp'.body) :
                  \E m \in calls[g].seen[k] :
                      resp'.body[k].age = AgeOn(m.on, m.dob)]_vars

\* C11 (amended): age is derived, never stored.  The table keeps name and
\* dob per id and nothing else, and no step of a read writes to it.  The
\* rows a read works on are the rows of the table at its SELECT, and every
\* age in a GetUserByID or ListUsers response is the age of the dob of that
\* row on the clock date at which the service computes it, after the SELECT:
\* for GetUserByID the date of the answer, for ListUsers the date of the
\* iteration that appends the user.  The dob string next to it is that of
\* the row.
C11_AgeDerived ==
    [][/\ \A i \in DOMAIN users : DOMAIN users[i] = {"name", "dob"}
       /\ Handles({"get", "list"}) => users' = users /\ nextId' = nextId
       /\ \A g \in Goroutines :
           LET c == calls[g]
               d == calls'[g]
           IN
           /\ (d.req.op \in {"get", "list"} /\ (d.pc # c.pc \/ d.body # c.body))
                 => users' = users /\ nextId' = nextId
           /\ (c.req.op \in {"get", "list"} /\ d.pc = "idle" /\ c.pc # "idle")
                 => users' = users /\ nextId' = nextId
           /\ (c.pc = "idle" /\ d.pc = "selected") =>
                 \A k \in 1..Len(d.rows) :
                     /\ d.rows[k].id \in DOMAIN users
                     /\ d.rows[k] = RowOf(users, d.rows[k].id)
           /\ (c.pc = "selected" /\ c.req.op = "get" /\ d.pc = "idle") =>
                 LET u == resp'.body[1]
                 IN  /\ req' = c.req
                     /\ resp'.status = 200
                     /\ Len(resp'.body) = 1
                     /\ u.hasAge
                     /\ u.id = c.rows[1].id
                     /\ u.dob = FormatTime(c.rows[1].dob)
                     /\ u.age = AgeOn(clock, c.rows[1].dob)
           /\ (c.pc = "counted" /\ d.pc = "counted" /\ d.body # c.body) =>
                 LET k == Len(d.body)
                     u == d.body[k]
                 IN  /\ k = Len(c.body) + 1
                     /\ SubSeq(d.body, 1, k - 1) = c.body
                     /\ u.hasAge
                     /\ u.id = c.rows[k].id
                     /\ u.dob = FormatTime(c.rows[k].dob)
                     /\ u.age = AgeOn(clock, c.rows[k].dob)
           /\ (c.pc = "counted" /\ d.pc = "idle") =>
                 /\ req' = c.req
                 /\ resp'.status = 200
                 /\ resp'.body = c.body]_vars

\* a ListUsers request has read the row of a user born 1990-12-18 on
\* 2024-12-17; an update has since given the user the dob 2030-01-01 and
\* midnight has passed; the loop has computed 34, the age of the dob of the
\* row on 2024-12-18, which the stored dob had at no moment since the SELECT
C11_Witness ==
    \E g \in Goroutines :
        /\ calls[g].pc = "counted"
        /\ Len(calls[g].body) >= 1
        /\ calls[g].rows[1].dob = Date(1990, 12, 18)
        /\ calls[g].body[1].dob = "1990-12-18"
        /\ calls[g].body[1].age = 34
        /\ clock = Date(2024, 12, 18)
        /\ calls[g].rows[1].id \in DOMAIN users
        /\ users[calls[g].rows[1].id].dob = Date(2030, 1, 1)
        /\ \A m \in calls[g].seen[1] : AgeOn(m.on, m.dob) # 34

\* C12: every age in a response is a non-negative integer.
C12_AgeNonNegative ==
    \A k \in 1..Len(resp.body) : resp.body[k].hasAge => resp.body[k].age >= 0

\* C13: the dob of a record never changes while the record exists.
C13_DobImmutable ==
    [][\A id \in DOMAIN users \cap DOMAIN users' :
          users'[id].dob = users[id].dob]_vars

\* C14: a create or update request whose name is missing, empty or longer
\* than 255 characters, or whose dob is missing or no YYYY-MM-DD date, is
\* answered 400; service and repository are not called and the table is
\* unchanged.
C14_InvalidRejected ==
    [][/\ RepliesAsHeld
       /\ ((Handles({"create", "update"}) /\ ~ValidInput(Served.req)) =>
              /\ Served.resp.status = 400
              /\ trace' = {}
              /\ users' = users
              /\ nextId' = nextId)]_vars

\* a create request with a name of 256 characters has been answered 400
C14_Witness ==
    /\ req.op = "create" /\ req.bodyOk
    /\ Len(req.name) = 256
    /\ ParseTime(req.dob).ok
    /\ resp.status = 400
    /\ trace = {}

\* a request with a dob string that is present and no date
MalformedDob(r) ==
    /\ r.op \in {"create", "update"}
    /\ r.bodyOk
    /\ r.op = "update" => ReqId(r).ok
    /\ r.dob # "" /\ ~ParseTime(r.dob).ok

\* C15: a request with a malformed dob is answered with one fixed message
\* that names the expected format YYYY-MM-DD, the same for every malformed
\* string.
C15_FixedDateMessage ==
    [][(clock' = clock /\ MalformedDob(req')) =>
          /\ Contains(resp'.error, "YYYY-MM-DD")
          /\ MalformedDob(req) => resp'.error = resp.error]_vars

\* C16: GET /users without query parameters returns every user of the table,
\* each once, each with its age.
C16_ListsAllUsers ==
    (req.op = "list" /\ req.page = "" /\ req.pageSize = "") =>
        /\ resp.status = 200
        /\ Len(resp.body) = Cardinality(DOMAIN users)
        /\ {resp.body[k].id : k \in 1..Len(resp.body)} = DOMAIN users
        /\ \A k \in 1..Len(resp.body) : resp.body[k].hasAge

\* C17: GetUserByID and UpdateUser addressed to an id without a record are
\* answered 404 "User not found"; the table is unchanged, no record is
\* created.
C17_MissingNotFound ==
    [][/\ RepliesAsHeld
       /\ ((/\ Handles({"get", "update"})
            /\ ReqId(Served.req).ok
            /\ ReqId(Served.req).v \notin DOMAIN users
            /\ Served.req.op = "update" => ValidInput(Served.req))
           =>
              /\ Served.resp.status = 404
              /\ Served.resp.error = "User not found"
              /\ users' = users
              /\ nextId' = nextId)]_vars

\* an update with a valid body for an id that was never created: 404
C17_Witness ==
    /\ req.op = "update" /\ ValidInput(req)
    /\ ReqId(req).ok /\ ReqId(req).v \notin everIds
    /\ resp.status = 404 /\ resp.error = "User not found"

\* C18: DELETE of an existing user is answered 204 and removes that record
\* and no other; from then on GetUserByID of the id is answered not found,
\* and no later created user gets the id.
C18_DeleteRemoves ==
    [][/\ RepliesAsHeld
       /\ (Handles({"delete"}) /\ ReqId(Served.req).ok /\ ReqId(Served.req).v \in DOMAIN users)
          => /\ Served.resp.status = 204
             /\ DOMAIN users' = DOMAIN users \ {ReqId(Served.req).v}
             /\ \A i \in DOMAIN users' : users'[i] = users[i]
       /\ (Handles({"get"}) /\ ReqId(Served.req).ok
             /\ ReqId(Served.req).v \in everIds \ DOMAIN users)
          => Served.resp.status = 404
       /\ (Handles({"create"}) /\ Served.resp.status = 201)
          => Served.resp.body[1].id \notin everIds]_vars

\* one of two users has been deleted, the other is still in the table
C18_Witness ==
    /\ req.op = "delete" /\ resp.status = 204
    /\ ReqId(req).v \in everIds \ DOMAIN users
    /\ DOMAIN users # {}

\* C19: DeleteUser addressed to an id without a record is answered 404
\* "User not found".
C19_DeleteMissingNotFound ==
    [][(Handles({"delete"}) /\ ReqId(Served.req).ok /\ ReqId(Served.req).v \notin DOMAIN users)
          => Served.resp.status = 404 /\ Served.resp.error = "User not found"]_vars

\* C20: CreateUser with valid input adds one record, under an id no record
\* has or ever had, and leaves the others as they are; the GetUserByID that
\* follows returns the name and the dob string that were submitted.
C20_CreateRoundTrip ==
    [][/\ RepliesAsHeld
       /\ (Handles({"create"}) /\ ValidInput(Served.req)) =>
            /\ Served.resp.status = 201
            /\ Len(Served.resp.body) = 1
            /\ Served.resp.body[1].id \notin everIds
            /\ DOMAIN users' = DOMAIN users \cup {Served.resp.body[1].id}
            /\ Cardinality(DOMAIN users') = Cardinality(DOMAIN users) + 1
            /\ \A i \in DOMAIN users : users'[i] = users[i]
            /\ Served.resp.body[1].name = Served.req.name
            /\ Served.resp.body[1].dob = Served.req.dob
       /\ (/\ req.op = "create" /\ resp.status = 201
           /\ Handles({"get"}) \/ Computed({"get"})
           /\ Served.req.id = Itoa(resp.body[1].id))
          =>
            /\ Served.resp.status = 200
            /\ Served.resp.body[1].id = resp.body[1].id
            /\ Served.resp.body[1].name = req.name
            /\ Served.resp.body[1].dob = req.dob]_vars

\* a user with a name of 255 characters, created and then read
C20_Witness ==
    /\ req.op = "get" /\ resp.status = 200
    /\ Len(resp.body[1].name) = 255
    /\ resp.body[1].dob = "1990-12-18"

\* C21: UpdateUser on an existing id with a valid body rewrites the name and
\* the dob of that one record: the record keeps its id, the table keeps its
\* ids and their number, every other record is as it was, and no id is
\* drawn from the sequence.
C21_UpdateFrame ==
    [][/\ RepliesAsHeld
       /\ ((/\ Handles({"update"})
            /\ ReqId(Served.req).ok
            /\ ReqId(Served.req).v \in DOMAIN users
            /\ ValidInput(Served.req))
           =>
              /\ Served.resp.status = 200
              /\ Len(Served.resp.body) = 1
              /\ Served.resp.body[1].id = ReqId(Served.req).v
              /\ DOMAIN users' = DOMAIN users
              /\ Cardinality(DOMAIN users') = Cardinality(DOMAIN users)
              /\ users'[ReqId(Served.req).v].name = Served.req.name
              /\ FormatTime(users'[ReqId(Served.req).v].dob) = Served.req.dob
              /\ \A i \in DOMAIN users \ {ReqId(Served.req).v} : users'[i] = users[i]
              /\ nextId' = nextId)]_vars

\* user 1 has been given a name of 255 characters and the dob 1990-12-18
\* while user 2 keeps the name A and the dob 2030-01-01
C21_Witness ==
    /\ req.op = "update" /\ req.id = "1" /\ resp.status = 200
    /\ DOMAIN users = {1, 2}
    /\ users[1] = [name |-> req.name, dob |-> Date(1990, 12, 18)]
    /\ Len(req.name) = 255
    /\ users[2] = [name |-> "A", dob |-> Date(2030, 1, 1)]

\* the page and the page size of a list request as the service takes them
ReqPage(r) == NormalPage(QueryInt(r.page, 1))
ReqPageSize(r) == NormalPageSize(QueryInt(r.pageSize, 10))

\* the rank of a user in ascending id order: 1 for the smallest id
Rank(tbl, id) == Cardinality({j \in DOMAIN tbl : j <= id})

\* C22: a list request is answered with the users at ranks
\* (page-1)*pageSize+1 .. page*pageSize of the table, in ascending id order,
\* page < 1 taken as 1 and pageSize < 1 or > 100 as 10; never more than 100
\* users.  (Rank k is on page p when (k-1) \div pageSize = p-1.)
C22_PageRanks ==
    req.op = "list" =>
        /\ resp.status = 200
        /\ Len(resp.body) <= 100
        /\ \A k \in 1..(Len(resp.body) - 1) : resp.body[k].id < resp.body[k + 1].id
        /\ {resp.body[k].id : k \in 1..Len(resp.body)}
             = {i \in DOMAIN users :
                  (Rank(users, i) - 1) \div ReqPageSize(req)
                      = SmallOf(Decrement(ReqPage(req).l))}

\* C23: the offset a list request hands to the repository is non-negative
\* and is (page-1)*pageSize itself: the conversion to int32 does not wrap.
C23_OffsetExact ==
    req.op = "list" =>
        /\ ListOffset(QueryInt(req.page, 1), QueryInt(req.pageSize, 10)).exact
        /\ ListOffset(QueryInt(req.page, 1), QueryInt(req.pageSize, 10)).v >= 0

\* C24: every case of TestCalculateAge_EdgeCases passes on every clock date:
\* the age returned for the dob built from (year - 30, month, day + k) of the
\* date the test read is 30 for k = 0, 29 for k = +1 and 30 for k = -1.
C24_EdgeCasesPass ==
    \A k \in EdgeOffsets :
        (pc[Test] = EdgeName(k) /\ Done(Callee)) => age[Callee] = EdgeWant(k)

\* C25: for a fixed date of birth the age on the following day is the age
\* of the day or one more; it never decreases from one day to the next.
C25_AgeMonotone ==
    Done(1) =>
        LET next == AgeAt(NextDay(now[1]), dob[1])
        IN  next = age[1] \/ next = age[1] + 1

\* a call on the eve of the birthday of a dob 30 years back: the age of the
\* following day is one more
C25_Witness ==
    /\ Done(1)
    /\ dob[1].year = now[1].year - 30
    /\ MonthDay(NextDay(now[1])) = MonthDay(dob[1])
    /\ age[1] = 29
    /\ AgeAt(NextDay(now[1]), dob[1]) = 30

\* C26: the ages of one ListUsers response are all computed against one
\* reference date: two users of a response with the same dob carry the same
\* age, also when midnight passes while the response is built.
C26_OneReferenceDate ==
    (req.op = "list" /\ resp.status = 200) =>
        \A j, k \in 1..Len(resp.body) :
            resp.body[j].dob = resp.body[k].dob
                => resp.body[j].age = resp.body[k].age

(***************************************************************************)
(* Properties of the middleware chain, checked under SpecMiddleware.       *)
(***************************************************************************)
\* the request has passed RequestIDMiddleware
PastRequestID ==
    mw.pc \in {"recovery", "logger", "route", "handler", "logged", "deferred",
               "handled", "crashed"}
    \/ (mw.pc = "sent" /\ ~mw.preflight)

\* the entries logged for the request being served with the message msg
Entries(msg) == {k \in 1..Len(logs) : logs[k].msg = msg}

\* C27: a request that has passed RequestIDMiddleware has a request id that
\* is not empty: the incoming X-Request-ID when that is not empty, otherwise
\* a generated one that no earlier request had; the response header
\* X-Request-ID carries it, every log entry with a request_id field carries
\* it, and neither LoggerMiddleware nor RecoveryMiddleware fails reading it.
C27_RequestId ==
    PastRequestID =>
        /\ mw.localSet
        /\ mw.local # ""
        /\ mw.hdrIn # "" => mw.local = mw.hdrIn
        /\ mw.hdrIn = "" => mw.local \notin mw.ids
        /\ mw.hdrOut = mw.local
        /\ \A k \in 1..Len(logs) :
              "request_id" \in logs[k].fields => logs[k].requestId = mw.local
        /\ mw.pc # "crashed"
        /\ mw.panicking => mw.route.kind = "panic"

\* the second of two requests without the header has been answered by its
\* handler; the first had the generated id uuid-1, the second was logged
\* under uuid-2
C27_Witness ==
    /\ mw.pc = "sent" /\ mw.n = 2 /\ mw.hdrIn = ""
    /\ mw.route.kind = "handler"
    /\ mw.hdrOut = "uuid-2"
    /\ mw.ids = {"uuid-1"}
    /\ \E k \in Entries("Request completed") : logs[k].requestId = "uuid-2"

\* C28: a request whose handler panics is answered 500 with the error
\* 'Internal server error'; the process does not go down, and the next
\* request can arrive.
C28_PanicRecovered ==
    /\ mw.pc # "crashed"
    /\ (mw.route.kind = "panic" /\ mw.pc = "sent") =>
          /\ mw.status = 500
          /\ mw.body = "Internal server error"
          /\ ~mw.panicking
          /\ Entries("Panic recovered") # {}
          /\ mw.n < MaxRequests =>
                ENABLED (\E h \in MwHeaders, r \in MwRoutes : Arrive(h, r, FALSE))

\* the first request panicked and was answered; the second, POST /users,
\* has been served with 201 and the user is in the table
C28_Witness ==
    /\ mw.pc = "sent" /\ mw.n = 2 /\ mw.recovered = 1
    /\ mw.route.kind = "handler" /\ mw.route.op = "create"
    /\ mw.status = 201
    /\ DOMAIN users = {1}

\* C29: when a request has been answered and 'Incoming request' was logged
\* for it, exactly one 'Request completed' entry was logged for it, with
\* the request's id and with the status the client receives.
C29_CompletedLogged ==
    (mw.pc = "sent" /\ Entries("Incoming request") # {}) =>
        /\ Cardinality(Entries("Request completed")) = 1
        /\ \A k \in Entries("Request completed") :
              /\ logs[k].requestId = mw.local
              /\ logs[k].status = mw.status

====
